---- MODULE Spec2Model ----
\* A model of pexels-photo-fetcher (src/main.go): the pagination-and-download
\* loop of main, with sendRequest, processPhoto, downloadImage and
\* compileFirstURL.  Strings the program inspects (URLs, file names, queries)
\* are sequences of one-character strings; the HTTP server and the file system
\* are the environment and answer nondeterministically.
EXTENDS Integers, Sequences, FiniteSets, TLC

\* ---------------------------------------------------------------- bounds

\* The model stops issuing page requests after MaxPages of them.
MaxPages == 2
\* The server lists at most MaxPhotos photos over the whole run.
MaxPhotos == 3
\* Longest URL given to the file-name derivation in SpecName.
MaxLen == 4
\* Longest query given to compileFirstURL in SpecURL.
MaxQueryLen == 3

\* ------------------------------------------------------- string helpers

\* strings.LastIndex(s, c), 1-based; 0 where Go returns -1.
LastIndex(s, c) ==
  IF \E i \in 1..Len(s) : s[i] = c
  THEN CHOOSE i \in 1..Len(s) : s[i] = c /\ \A j \in (i+1)..Len(s) : s[j] # c
  ELSE 0

\* The index of the first c in s, 1-based; 0 when there is none.
FirstIndex(s, c) ==
  IF \E i \in 1..Len(s) : s[i] = c
  THEN CHOOSE i \in 1..Len(s) : s[i] = c /\ \A j \in 1..(i-1) : s[j] # c
  ELSE 0

\* path.Base strips trailing slashes first.
RECURSIVE StripTrailingSlashes(_)
StripTrailingSlashes(p) ==
  IF Len(p) > 0 /\ p[Len(p)] = "/"
  THEN StripTrailingSlashes(SubSeq(p, 1, Len(p) - 1))
  ELSE p

\* path.Base(p): "." for the empty path, "/" for a path of slashes only,
\* otherwise what follows the last slash once trailing slashes are gone.
Base(p) ==
  IF p = <<>> THEN <<".">>
  ELSE LET s == StripTrailingSlashes(p)
           t == SubSeq(s, LastIndex(s, "/") + 1, Len(s))
       IN  IF t = <<>> THEN <<"/">> ELSE t

\* processPhoto, "Cut off query args": photoURL[:strings.LastIndex(photoURL, "?")].
CutQueryArgs(photoURL) ==
  LET idx == LastIndex(photoURL, "?")
  IN  IF idx # 0 THEN SubSeq(photoURL, 1, idx - 1) ELSE photoURL

\* The name processPhoto gives the file of photoURL.
FileName(photoURL) == Base(CutQueryArgs(photoURL))

\* filepath.Join(dst, name) names dst itself or its parent, a directory, for
\* these names; os.Create of a directory fails.
JoinsToDirectory(name) == name \in {<<".">>, <<"/">>, <<".", ".">>}

\* ------------------------------------------------------ compileFirstURL

\* url.PathEscape of one character, in place of url.QueryEscape.
EscapeCharAsPath(c) ==
  CASE c = " " -> <<"%", "2", "0">>
    [] c = "?" -> <<"%", "3", "F">>
    [] c = "#" -> <<"%", "2", "3">>
    [] c = "%" -> <<"%", "2", "5">>
    [] c = "/" -> <<"%", "2", "F">>
    [] OTHER   -> <<c>>

\* url.QueryEscape of one character.
EscapeChar(c) ==
  CASE c = " " -> <<"+">>
    [] c = "&" -> <<"%", "2", "6">>
    [] c = "=" -> <<"%", "3", "D">>
    [] c = "?" -> <<"%", "3", "F">>
    [] c = "#" -> <<"%", "2", "3">>
    [] c = "%" -> <<"%", "2", "5">>
    [] c = "+" -> <<"%", "2", "B">>
    [] c = "/" -> <<"%", "2", "F">>
    [] OTHER   -> <<c>>

RECURSIVE QueryEscape(_)
QueryEscape(s) ==
  IF s = <<>> THEN <<>> ELSE EscapeChar(Head(s)) \o QueryEscape(Tail(s))

\* firstURL up to its "?".
SearchEndpoint ==
  <<"h", "t", "t", "p", "s", ":", "/", "/", "a", "p", "i", ".", "p", "e", "x",
    "e", "l", "s", ".", "c", "o", "m", "/", "v", "1", "/", "s", "e", "a", "r",
    "c", "h">>

\* u.Query() of firstURL with "query" set, in the key order of Values.Encode
\* (sorted: page, per_page, query).
FirstParams(query) ==
  << << <<"p", "a", "g", "e">>, <<"1">> >>,
     << <<"p", "e", "r", "_", "p", "a", "g", "e">>, <<"8", "0">> >>,
     << <<"q", "u", "e", "r", "y">>, query >> >>

\* url.Values.Encode: key=value pairs, both escaped, joined by "&".
RECURSIVE Encode(_)
Encode(params) ==
  IF params = <<>> THEN <<>>
  ELSE LET kv == Head(params)
           one == QueryEscape(kv[1]) \o <<"=">> \o QueryEscape(kv[2])
       IN  IF Len(params) = 1 THEN one
           ELSE one \o <<"&">> \o Encode(Tail(params))

compileFirstURL(query) == SearchEndpoint \o <<"?">> \o Encode(FirstParams(query))

\* --------------------------------------------------------- environment

\* The -key values tried: absent, and one key.
Keys == {"", "secret"}

\* The -query values tried.
Queries == {<<"c">>, <<"a", " ", "&">>}

\* The large2x URLs the server may list.  The first two derive the same file
\* name; the third has two "?".
PhotoURLs ==
  { <<"x", "/", "a">>,
    <<"y", "/", "a", "?", "q">>,
    <<"x", "/", "b", "?", "q", "?", "r">> }

\* The cursors the server may return with page p: the empty one, that ends
\* the chain, or the URI of page p + 1.
Cursors(p) == { <<>>, <<"n", <<"1", "2", "3", "4", "5">>[p + 1]>> }

\* The bytes the image server sends for photo i of page p.
ImageBytes(p, i) == <<p, i>>

\* A file left in the destination by an earlier run.
OldFiles == [n \in {<<"a">>} |-> <<0, 0>>]
NoFiles == [n \in {} |-> <<>>]

\* http.NewRequest rejects a URL holding a control character.
ValidURL(u) == \A i \in 1..Len(u) : u[i] # "\n"

\* Sequences over S of length at most n.
SeqUpTo(S, n) == UNION {[1..k -> S] : k \in 0..n}

\* ---------------------------------------------------------------- state

VARIABLES
  pc,          \* where main is: "key", "mkdir", "send", "photos", "create",
               \* "copy", "exited"; "name"/"named" in SpecName; "url"/"built"
               \* in SpecURL
  key,         \* *key
  query,       \* *query
  dirExists,   \* whether *dst exists
  files,       \* the files of *dst: name -> bytes
  nextPage,    \* nextPage
  totalCount,  \* totalCount
  resp,        \* resp of the current iteration: [Photos, NextPage]
  idx,         \* position of the range loop in resp.Photos
  pageNo,      \* page requests issued so far
  img,         \* the open image body of processPhoto: <<bytes>>, or <<>>
  status,      \* exit status, -1 while running
  pages,       \* the page responses decoded so far, in order
  written,     \* the files completed photos of this run wrote: name -> bytes
  trace,       \* what the run did, in order: requests, closes, file
               \* operations, log lines, exit
  arg,         \* SpecName: the URL given to FileName; SpecURL: the query
  ret          \* SpecName: the name derived; SpecURL: the URL built

vars == <<pc, key, query, dirExists, files, nextPage, totalCount, resp, idx,
          pageNo, img, status, pages, written, trace, arg, ret>>

Ev(e, u, d) == [ev |-> e, url |-> u, data |-> d]

NoResp == [Photos |-> <<>>, NextPage |-> <<>>]

Init ==
  /\ pc = "key"
  /\ key \in Keys
  /\ query \in Queries
  /\ dirExists \in BOOLEAN
  /\ files = IF dirExists THEN OldFiles ELSE NoFiles
  /\ nextPage = <<>>
  /\ totalCount = 0
  /\ resp = NoResp
  /\ idx = 0
  /\ pageNo = 0
  /\ img = <<>>
  /\ status = -1
  /\ pages = <<>>
  /\ written = NoFiles
  /\ trace = <<>>
  /\ arg = <<>>
  /\ ret = <<>>

\* ------------------------------------------------------------- operations

\* http.StatusOK.
StatusOK == 200
\* The statuses the servers answer with: 200, and one that is not.
Statuses == {StatusOK, 404}
\* The status log.Fatal and log.Fatalf end the process with.
FatalStatus == 1
\* The status of a process whose main returns.
DoneStatus == 0

\* A main without the check of the key.
KeyCheckSkipped(k) == FALSE

\* main: *key == "".
KeyMissing(k) == k = ""

\* main: an os.Mkdir error is fatal unless os.IsExist(err).
MkdirErrorIsFatal(exists) == ~exists

\* sendRequest: req.Header.Add("Authorization", key): the header's values.
PageAuthorization(k) == <<k>>

\* A downloadImage that sends the key as sendRequest does.
ImageAuthorizationKey(k) == <<k>>

\* downloadImage adds no header: the Authorization values of its request.
ImageAuthorization(k) == <<>>

\* sendRequest: resp.StatusCode != http.StatusOK is an error.
PageStatusIsError(code) == code # StatusOK

\* A downloadImage that does not look at the status.
ImageStatusUnchecked(code) == FALSE

\* downloadImage: resp.StatusCode != http.StatusOK is an error.
ImageStatusIsError(code) == code # StatusOK

\* A main that logs the sendRequest error and carries on with the loop body.
OnSendErrorContinue == "photos"

\* main: where it goes when sendRequest returns an error (log.Fatalf).
OnSendError == "exited"

\* A main that logs the processPhoto error and goes on to the next photo.
OnPhotoErrorSkip == "photos"

\* main: where it goes when processPhoto returns an error (log.Fatalf).
OnPhotoError == "exited"

\* A main that builds the next URL from the query again.
NextURLRederived(r) ==
  IF r.NextPage = <<>> THEN <<>> ELSE compileFirstURL(query)

\* main: nextPage = resp.NextPage.
NextURL(r) == r.NextPage

\* A loop that also stops at a page without photos.
LoopBreaksOnEmptyPage(r) == NextURL(r) = <<>> \/ r.Photos = <<>>

\* A loop with a cap of one page.
LoopBreaksAtPageCap(r) == NextURL(r) = <<>> \/ pageNo >= 1

\* main: the loop breaks when the new nextPage is "".
LoopBreaks(r) == NextURL(r) = <<>>

\* A main that assigns the page's count instead of adding it.
CountedLastPageOnly(total, r) == Len(r.Photos)

\* main: totalCount += len(resp.Photos).
Counted(total, r) == total + Len(r.Photos)

\* A sendRequest without its deferred resp.Body.Close().
PageBodyLeftOpen(u) == <<>>

\* sendRequest: defer resp.Body.Close(), run when sendRequest returns.
PageBodyClosed(u) == <<Ev("bodyClose", u, <<>>)>>

\* An open without O_TRUNC, in append mode: the old content stays.
CreatedContentKept(old) == old

\* os.Create opens with O_TRUNC: the content of the file once opened.
CreatedContent(old) == <<>>

\* The files once `name` holds `bytes`.
WithFile(f, name, bytes) ==
  [n \in (DOMAIN f) \cup {name} |-> IF n = name THEN bytes ELSE f[n]]

\* The process ends with `code` after doing `evs`.
Exit(code, evs) ==
  /\ pc' = "exited"
  /\ status' = code
  /\ trace' = trace \o evs \o <<Ev("exit", <<>>, <<code>>)>>

\* After doing `evs`, main goes to `to`; "exited" is log.Fatalf.
Leave(to, evs) ==
  IF to = "exited"
  THEN Exit(FatalStatus, evs)
  ELSE /\ pc' = to
       /\ status' = status
       /\ trace' = trace \o evs

\* main, lines 58-60: no key is fatal.
CheckKey ==
  /\ pc = "key"
  /\ IF KeyMissing(key)
     THEN Exit(FatalStatus, <<Ev("error", <<>>, <<"nokey">>)>>)
     ELSE /\ pc' = "mkdir"
          /\ UNCHANGED <<status, trace>>
  /\ UNCHANGED <<key, query, dirExists, files, nextPage, totalCount, resp, idx,
                 pageNo, img, pages, written, arg, ret>>

\* main, lines 62-83: os.Mkdir of the destination, then compileFirstURL.
MakeDst ==
  /\ pc = "mkdir"
  /\ \E failed \in BOOLEAN :
       \* an existing directory always fails with EEXIST
       /\ dirExists => failed
       /\ IF failed /\ MkdirErrorIsFatal(dirExists)
          THEN /\ Exit(FatalStatus, <<Ev("error", <<>>, <<"mkdir">>)>>)
               /\ UNCHANGED <<dirExists, nextPage, totalCount>>
          ELSE /\ dirExists' = TRUE
               /\ nextPage' = compileFirstURL(query)
               /\ totalCount' = 0
               /\ pc' = "send"
               /\ status' = status
               /\ trace' = Append(trace, Ev("mkdir", <<>>,
                                  <<IF failed THEN "exists" ELSE "created">>))
  /\ UNCHANGED <<key, query, files, resp, idx, pageNo, img, pages, written,
                 arg, ret>>

\* main, lines 86-91, with sendRequest: one page request and its outcome.
SendRequest ==
  /\ pc = "send"
  /\ pageNo < MaxPages
  /\ IF ~ValidURL(nextPage)
     THEN \* http.NewRequest fails: nothing is sent
          /\ Leave(OnSendError, <<Ev("error", nextPage, <<"newrequest">>)>>)
          /\ UNCHANGED <<totalCount, resp, idx, pageNo, pages>>
     ELSE LET req == Ev("pageReq", nextPage, PageAuthorization(key))
              open == Ev("bodyOpen", nextPage, <<>>)
              closed == PageBodyClosed(nextPage)
          IN
          /\ pageNo' = pageNo + 1
          /\ \/ \* client.Do fails
                /\ Leave(OnSendError, <<req, Ev("error", nextPage, <<"transport">>)>>)
                /\ UNCHANGED <<totalCount, resp, idx, pages>>
             \/ \* a status that is an error
                /\ \E code \in Statuses :
                     /\ PageStatusIsError(code)
                     /\ Leave(OnSendError,
                              <<req, open, Ev("status", nextPage, <<code>>),
                                Ev("error", nextPage, <<"non200">>)>> \o closed)
                /\ UNCHANGED <<totalCount, resp, idx, pages>>
             \/ \* ioutil.ReadAll fails
                /\ Leave(OnSendError,
                         <<req, open, Ev("status", nextPage, <<StatusOK>>),
                           Ev("error", nextPage, <<"read">>)>> \o closed)
                /\ UNCHANGED <<totalCount, resp, idx, pages>>
             \/ \* json.Unmarshal fails: log.Fatalf inside sendRequest, and
                \* the deferred Close does not run
                /\ Exit(FatalStatus,
                        <<req, open, Ev("status", nextPage, <<StatusOK>>),
                          Ev("error", nextPage, <<"decode">>)>>)
                /\ UNCHANGED <<totalCount, resp, idx, pages>>
             \/ \* a page
                \E code \in Statuses :
                \E photos \in SeqUpTo(PhotoURLs, MaxPhotos - totalCount) :
                \E cursor \in Cursors(pageNo + 1) :
                  LET r == [Photos |-> photos, NextPage |-> cursor] IN
                  /\ ~PageStatusIsError(code)
                  /\ resp' = r
                  /\ pages' = Append(pages, r)
                  /\ totalCount' = Counted(totalCount, r)
                  /\ idx' = 1
                  /\ pc' = "photos"
                  /\ status' = status
                  /\ trace' = trace \o
                       <<req, open, Ev("status", nextPage, <<code>>)>> \o closed
  /\ UNCHANGED <<key, query, dirExists, files, nextPage, img, written, arg, ret>>

\* The photo the range loop is at.
PhotoURL == resp.Photos[idx]

\* processPhoto, line 159, with downloadImage: the image request and its outcome.
DownloadImage ==
  /\ pc = "photos"
  /\ idx <= Len(resp.Photos)
  /\ IF ~ValidURL(PhotoURL)
     THEN /\ Leave(OnPhotoError,
                   <<Ev("error", PhotoURL, <<"newrequest">>)>>)
          /\ idx' = IF OnPhotoError = "exited" THEN idx ELSE idx + 1
          /\ img' = img
     ELSE LET req == Ev("imageReq", PhotoURL, ImageAuthorization(key))
              open == Ev("bodyOpen", PhotoURL, <<>>)
          IN
          \/ \* client.Do fails
             /\ Leave(OnPhotoError,
                      <<req, Ev("error", PhotoURL, <<"transport">>)>>)
             /\ idx' = IF OnPhotoError = "exited" THEN idx ELSE idx + 1
             /\ img' = img
          \/ \E code \in Statuses :
               IF ImageStatusIsError(code)
               THEN \* downloadImage returns nil and the error: nobody holds
                    \* the body, and nobody closes it
                    /\ Leave(OnPhotoError,
                             <<req, open, Ev("status", PhotoURL, <<code>>),
                               Ev("error", PhotoURL, <<"non200">>)>>)
                    /\ idx' = IF OnPhotoError = "exited" THEN idx ELSE idx + 1
                    /\ img' = img
               ELSE /\ img' = <<ImageBytes(pageNo, idx)>>
                    /\ idx' = idx
                    /\ pc' = "create"
                    /\ status' = status
                    /\ trace' = trace \o
                         <<req, open, Ev("status", PhotoURL, <<code>>)>>
  /\ UNCHANGED <<key, query, dirExists, files, nextPage, totalCount, resp,
                 pageNo, pages, written, arg, ret>>

\* processPhoto, lines 165-177: the name, and os.Create of the file.
CreateFile ==
  /\ pc = "create"
  /\ LET name == FileName(PhotoURL) IN
     \E failed \in BOOLEAN :
       /\ JoinsToDirectory(name) => failed
       /\ IF failed
          THEN \* the deferred img.Close runs
               /\ Leave(OnPhotoError,
                        <<Ev("error", name, <<"create">>),
                          Ev("bodyClose", PhotoURL, <<>>)>>)
               /\ idx' = IF OnPhotoError = "exited" THEN idx ELSE idx + 1
               /\ img' = <<>>
               /\ files' = files
          ELSE /\ files' = WithFile(files, name,
                             CreatedContent(IF name \in DOMAIN files
                                            THEN files[name] ELSE <<>>))
               /\ pc' = "copy"
               /\ trace' = Append(trace, Ev("create", name, <<>>))
               /\ UNCHANGED <<idx, img, status>>
  /\ UNCHANGED <<key, query, dirExists, nextPage, totalCount, resp, pageNo,
                 pages, written, arg, ret>>

\* processPhoto, lines 179-183: io.Copy, then the deferred f.Close and img.Close.
CopyImage ==
  /\ pc = "copy"
  /\ LET name == FileName(PhotoURL)
         bytes == img[1]
         closes == <<Ev("fileClose", name, <<>>), Ev("bodyClose", PhotoURL, <<>>)>>
     IN
     \/ \* every byte is copied
        /\ files' = WithFile(files, name, files[name] \o bytes)
        /\ written' = WithFile(written, name, files[name] \o bytes)
        /\ idx' = idx + 1
        /\ pc' = "photos"
        /\ status' = status
        /\ trace' = trace \o <<Ev("write", name, bytes)>> \o closes
     \/ \* the copy fails after k bytes
        \E k \in 0..Len(bytes) :
          /\ files' = WithFile(files, name, files[name] \o SubSeq(bytes, 1, k))
          /\ written' = written
          /\ Leave(OnPhotoError,
                   <<Ev("write", name, SubSeq(bytes, 1, k)),
                     Ev("error", name, <<"copy">>)>> \o closes)
          /\ idx' = IF OnPhotoError = "exited" THEN idx ELSE idx + 1
  /\ img' = <<>>
  /\ UNCHANGED <<key, query, dirExists, nextPage, totalCount, resp, pageNo,
                 pages, arg, ret>>

\* main, lines 100-107: the page is done; log, then break or loop.
EndPage ==
  /\ pc = "photos"
  /\ idx > Len(resp.Photos)
  /\ nextPage' = NextURL(resp)
  /\ IF LoopBreaks(resp)
     THEN Exit(DoneStatus, <<Ev("log", <<>>, <<totalCount>>),
                             Ev("done", <<>>, <<totalCount>>)>>)
     ELSE /\ pc' = "send"
          /\ status' = status
          /\ trace' = Append(trace, Ev("log", <<>>, <<totalCount>>))
  /\ UNCHANGED <<key, query, dirExists, files, totalCount, resp, idx, pageNo,
                 img, pages, written, arg, ret>>

Next ==
  \/ CheckKey
  \/ MakeDst
  \/ SendRequest
  \/ DownloadImage
  \/ CreateFile
  \/ CopyImage
  \/ EndPage

Spec == Init /\ [][Next]_vars

\* ------------------------------------------- the file name, on its own

\* The characters of the URLs given to FileName in SpecName.
NameChars == {"a", "/", "?", "."}

InitName ==
  /\ pc = "name"
  /\ arg \in SeqUpTo(NameChars, MaxLen)
  /\ ret = <<>>
  /\ key = "secret"
  /\ query = <<"c">>
  /\ dirExists = TRUE
  /\ files = NoFiles
  /\ nextPage = <<>>
  /\ totalCount = 0
  /\ resp = NoResp
  /\ idx = 0
  /\ pageNo = 0
  /\ img = <<>>
  /\ status = -1
  /\ pages = <<>>
  /\ written = NoFiles
  /\ trace = <<>>

\* processPhoto, lines 165-170, applied to arg.
DeriveName ==
  /\ pc = "name"
  /\ ret' = FileName(arg)
  /\ pc' = "named"
  /\ UNCHANGED <<key, query, dirExists, files, nextPage, totalCount, resp, idx,
                 pageNo, img, status, pages, written, trace, arg>>

NextName == DeriveName

SpecName == InitName /\ [][NextName]_vars

\* --------------------------------------- compileFirstURL, on its own

\* The characters of the queries given to compileFirstURL in SpecURL.
QueryChars == {"a", " ", "&", "=", "?", "#", "%", "+", "/"}

InitURL ==
  /\ pc = "url"
  /\ arg \in SeqUpTo(QueryChars, MaxQueryLen)
  /\ ret = <<>>
  /\ key = "secret"
  /\ query = <<"c">>
  /\ dirExists = TRUE
  /\ files = NoFiles
  /\ nextPage = <<>>
  /\ totalCount = 0
  /\ resp = NoResp
  /\ idx = 0
  /\ pageNo = 0
  /\ img = <<>>
  /\ status = -1
  /\ pages = <<>>
  /\ written = NoFiles
  /\ trace = <<>>

\* main, line 76: compileFirstURL applied to arg.
BuildURL ==
  /\ pc = "url"
  /\ ret' = compileFirstURL(arg)
  /\ pc' = "built"
  /\ UNCHANGED <<key, query, dirExists, files, nextPage, totalCount, resp, idx,
                 pageNo, img, status, pages, written, trace, arg>>

NextURLBuilt == BuildURL

SpecURL == InitURL /\ [][NextURLBuilt]_vars

\* ------------------------------------------------------ reading the trace

IsRequest(e) == e.ev \in {"pageReq", "imageReq"}
IsPageReq(e) == e.ev = "pageReq"
IsWrite(e) == e.ev = "write"
IsError(e) == e.ev = "error"

Requests == SelectSeq(trace, IsRequest)
PageRequests == SelectSeq(trace, IsPageReq)
Writes == SelectSeq(trace, IsWrite)
Errors == SelectSeq(trace, IsError)

\* The photos of pages ps[i..], in page order, each with the page and the
\* position it was listed at.
RECURSIVE PhotosFrom(_, _)
PhotosFrom(ps, i) ==
  IF i > Len(ps) THEN <<>>
  ELSE [j \in 1..Len(ps[i].Photos) |->
          [url |-> ps[i].Photos[j], page |-> i, pos |-> j]]
       \o PhotosFrom(ps, i + 1)

\* Every photo the server listed so far, in page order.
Listed == PhotosFrom(pages, 1)

\* The requests a run over pages ps makes when nothing fails: for each page
\* its request, then one image request per photo, in list order.
RECURSIVE RequestsFor(_, _)
RequestsFor(ps, i) ==
  IF i > Len(ps) THEN <<>>
  ELSE <<[kind |-> "pageReq", photo |-> <<>>]>>
       \o [j \in 1..Len(ps[i].Photos) |->
             [kind |-> "imageReq", photo |-> ps[i].Photos[j]]]
       \o RequestsFor(ps, i + 1)

\* The requests the run made, in the same shape.
RequestsMade ==
  [i \in 1..Len(Requests) |->
     [kind |-> Requests[i].ev,
      photo |-> IF Requests[i].ev = "imageReq" THEN Requests[i].url ELSE <<>>]]

\* The complete writes of the first n listed photos, in order.
WritesFor(n) ==
  [i \in 1..n |->
     Ev("write", FileName(Listed[i].url), ImageBytes(Listed[i].page, Listed[i].pos))]

LastPage == pages[Len(pages)]

\* The files the destination held when the run began.
InitialFiles ==
  IF \E i \in DOMAIN trace : trace[i] = Ev("mkdir", <<>>, <<"exists">>)
  THEN OldFiles
  ELSE NoFiles

\* The destination when the run has put the files w there and touched
\* nothing else.
FilesWith(w) ==
  [n \in (DOMAIN InitialFiles) \cup (DOMAIN w) |->
     IF n \in DOMAIN w THEN w[n] ELSE InitialFiles[n]]

\* The pages received form a chain ended by its last page: only the last
\* cursor is empty.
ChainEnded ==
  /\ pages # <<>>
  /\ LastPage.NextPage = <<>>
  /\ \A i \in 1..(Len(pages) - 1) : pages[i].NextPage # <<>>

\* s is a prefix of t.
IsPrefix(s, t) == Len(s) <= Len(t) /\ s = SubSeq(t, 1, Len(s))

\* -------------------------------------------------------------- claims

\* C1: a run in which nothing fails, over a chain of N pages ended by the
\* page with the empty cursor, makes exactly N page requests and one image
\* request and one complete write per listed photo, in page order and list
\* order, page N's photos included, and no request after the last photo.
C1_ChainProcessedInOrder ==
  status = DoneStatus =>
    /\ ChainEnded
    /\ Len(PageRequests) = Len(pages)
    /\ RequestsMade = RequestsFor(pages, 1)
    /\ Writes = WritesFor(Len(Listed))

C1_Witness ==
  /\ status = DoneStatus
  /\ Len(pages) = 2
  /\ Len(pages[1].Photos) = 2
  /\ Len(pages[2].Photos) = 1

\* C2: the loop's only stop decision is the cursor.  When a page is done, an
\* empty cursor ends the run with status 0 and a non-empty one sends main
\* back to request that cursor, whatever the photo list and however many
\* pages came before; a run that ended normally saw an empty cursor last;
\* and once the empty cursor has come the run requests no page again and
\* is never stuck before it exits.
C2_StopsOnlyOnEmptyCursor ==
  /\ [][(pc = "photos" /\ idx > Len(resp.Photos)) =>
          IF resp.NextPage = <<>>
          THEN pc' = "exited" /\ status' = DoneStatus
          ELSE pc' = "send" /\ status' = -1 /\ nextPage' = resp.NextPage]_vars
  /\ [](status = DoneStatus => ChainEnded)
  /\ []((pages # <<>> /\ LastPage.NextPage = <<>>) =>
          (pc # "send" /\ (pc = "exited" \/ ENABLED Next)))

C2_Witness ==
  /\ pc = "send"
  /\ Len(pages) = 1
  /\ pages[1].Photos = <<>>
  /\ nextPage = pages[1].NextPage

\* C4: after a non-200 answer to a page request the run only closes the body
\* and exits: no image request, no file creation, no write follows (none
\* at all when it was the first page).  After a non-200 answer to an image
\* request the same holds, every photo listed before the failing one has been
\* written in full, and the failing photo's file is not created.
C4_Non200Aborts ==
  \A i \in DOMAIN trace :
    (trace[i].ev = "status" /\ trace[i].data # <<StatusOK>>) =>
      /\ \A j \in (i+1)..Len(trace) :
           trace[j].ev \in {"error", "bodyClose", "exit"}
      /\ status = FatalStatus
      /\ (trace[i-2].ev = "pageReq" /\ Len(PageRequests) = 1) =>
           \A j \in DOMAIN trace : trace[j].ev \notin {"imageReq", "create", "write"}
      /\ trace[i-2].ev = "imageReq" =>
           /\ Writes = WritesFor(Len(SelectSeq(trace, LAMBDA e : e.ev = "imageReq")) - 1)
           /\ Len(SelectSeq(trace, LAMBDA e : e.ev = "create")) = Len(Writes)
           /\ files = FilesWith(written)

C4_Witness ==
  /\ status = FatalStatus
  /\ Len(Writes) = 2
  /\ \E i \in DOMAIN trace :
       /\ trace[i].ev = "status"
       /\ trace[i].data # <<StatusOK>>
       /\ trace[i-2].ev = "imageReq"
       /\ FileName(trace[i].url) \in DOMAIN written

\* C5: after the first failure of any step nothing more is requested or
\* written: the run only closes what it holds and exits.  There is one
\* failure at most, and no request follows it, so none is repeated.
C5_FailFast ==
  /\ Len(Errors) <= 1
  /\ \A i \in DOMAIN trace :
       trace[i].ev = "error" =>
         /\ \A j \in (i+1)..Len(trace) :
              trace[j].ev \in {"bodyClose", "fileClose", "exit"}
         /\ pc = "exited"

C5_Witness ==
  /\ pc = "exited"
  /\ Len(Errors) = 1
  /\ Errors[1].data = <<"copy">>
  /\ idx < Len(resp.Photos)
  /\ resp.NextPage # <<>>

\* C6: the first page request goes to compileFirstURL(query), and page
\* request i+1 goes to exactly the next_page string of page response i.
C6_CursorVerbatim ==
  \A i \in DOMAIN PageRequests :
    PageRequests[i].url =
      IF i = 1 THEN compileFirstURL(query) ELSE pages[i-1].NextPage

C6_Witness ==
  /\ Len(PageRequests) = 2
  /\ PageRequests[2].url = <<"n", "2">>
  /\ pages[1].Photos # <<>>
  /\ query = <<"a", " ", "&">>

\* C7: every page request carries the key as the one raw value of its
\* Authorization header, and no image request carries an Authorization
\* header.
C7_KeyOnlyOnPageRequests ==
  \A i \in DOMAIN trace :
    /\ trace[i].ev = "pageReq" => trace[i].data = <<key>>
    /\ trace[i].ev = "imageReq" => trace[i].data = <<>>

C7_Witness ==
  /\ Len(PageRequests) = 2
  /\ Len(Requests) = 4

\* C8: the process has ended exactly when it has a status; the status is 0
\* exactly when the page with the empty cursor was received, all its photos
\* were processed and the summary was logged, with no error before; and
\* every error at any step ends it with a status that is not 0.  An
\* already existing destination is not an error.
C8_ExitStatus ==
  /\ status \in {-1, DoneStatus, FatalStatus}
  /\ (pc = "exited") <=> (status # -1)
  /\ (status = DoneStatus) <=>
       /\ pc = "exited"
       /\ Errors = <<>>
  /\ (status = DoneStatus) =>
       /\ ChainEnded
       /\ resp = LastPage
       /\ idx = Len(resp.Photos) + 1
       /\ Len(Writes) = Len(Listed)
       /\ SubSeq(trace, Len(trace) - 1, Len(trace)) =
            <<Ev("done", <<>>, <<Len(Listed)>>), Ev("exit", <<>>, <<DoneStatus>>)>>
  /\ (Errors # <<>>) =>
       /\ status = FatalStatus
       /\ FatalStatus # 0
       /\ trace[Len(trace)] = Ev("exit", <<>>, <<FatalStatus>>)
       /\ Errors[1].data = <<"mkdir">> => ~dirExists

C8_Witness ==
  /\ status = FatalStatus
  /\ Errors[1].data = <<"decode">>
  /\ Len(pages) = 1

\* The bytes of the last listed photo that derives the name n.
LastBytesFor(n) ==
  LET last == CHOOSE i \in DOMAIN Listed :
                /\ FileName(Listed[i].url) = n
                /\ \A j \in (i+1)..Len(Listed) : FileName(Listed[j].url) # n
  IN  ImageBytes(Listed[last].page, Listed[last].pos)

DerivedNames == {FileName(Listed[i].url) : i \in DOMAIN Listed}

\* C9: each processed photo writes the exact bytes of its response to the
\* file of its derived name, and after a successful run the destination
\* holds, for each distinct derived name, one file with the bytes of the last
\* photo in processing order that derives that name; files of other names
\* are as they were.
C9_LastWriteWins ==
  /\ IsPrefix(Writes, WritesFor(Len(Listed))) \/ Errors # <<>>
  /\ status = DoneStatus =>
       /\ DOMAIN written = DerivedNames
       /\ files = FilesWith([n \in DerivedNames |-> LastBytesFor(n)])

C9_Witness ==
  /\ status = DoneStatus
  /\ Len(Listed) = 3
  /\ FileName(Listed[1].url) = FileName(Listed[3].url)
  /\ Listed[1].url # Listed[3].url
  /\ FileName(Listed[2].url) # FileName(Listed[1].url)

\* The last error of the run, when there is one.
LastError == Errors[Len(Errors)]

\* C10 as stated: when the run has aborted, every file a photo of this run
\* wrote in full is on disk with the content it was given.
C10_EarlierFilesUntouched ==
  status = FatalStatus =>
    \A n \in DOMAIN written : n \in DOMAIN files /\ files[n] = written[n]

\* C10, amended: when the run has aborted, every file a photo of this run
\* wrote in full is on disk with the content it was given, except the file
\* of the failing photo's own derived name when the failure is in the copy:
\* os.Create has truncated that file, and it holds the bytes of the failing
\* photo copied before the failure.
C10_EarlierFilesUntouchedButSameName ==
  status = FatalStatus =>
    \A n \in DOMAIN written :
      /\ n \in DOMAIN files
      /\ \/ files[n] = written[n]
         \/ /\ LastError = Ev("error", n, <<"copy">>)
            /\ n = FileName(PhotoURL)
            /\ files[n] = Writes[Len(Writes)].data
            /\ IsPrefix(files[n], ImageBytes(pageNo, idx))

C10_Witness ==
  /\ status = FatalStatus
  /\ LastError.data = <<"copy">>
  /\ FileName(PhotoURL) \in DOMAIN written
  /\ files[FileName(PhotoURL)] # written[FileName(PhotoURL)]
  /\ \E n \in DOMAIN written : n # FileName(PhotoURL) /\ files[n] = written[n]

\* The file name the specification describes: everything from and including
\* the first "?" removed, then the final path segment.
CutAtFirstQuestionMark(u) ==
  LET i == FirstIndex(u, "?")
  IN  IF i # 0 THEN SubSeq(u, 1, i - 1) ELSE u

\* C3: the file name processPhoto uses is the final path segment of the URL
\* cut at its first "?".
C3_NameCutsAtFirstQuestionMark ==
  pc = "named" => ret = Base(CutAtFirstQuestionMark(arg))

\* The events before position i of the trace.
Before(i) == SubSeq(trace, 1, i - 1)

\* How many events of kind e the sequence t holds.
Count(t, e) == Len(SelectSeq(t, LAMBDA x : x.ev = e))

\* C11: once processPhoto has returned, every body an image request got,
\* whatever its status, has been closed before any other request.
C11_ImageBodiesClosed ==
  pc \notin {"create", "copy"} =>
    \A i \in DOMAIN trace :
      (trace[i].ev = "bodyOpen" /\ trace[i-1].ev = "imageReq") =>
        \E k \in (i+1)..Len(trace) :
          /\ trace[k] = Ev("bodyClose", trace[i].url, <<>>)
          /\ \A j \in (i+1)..k : ~IsRequest(trace[j])

\* C12: when a request is issued, in any run prefix, everything before it
\* is finished: every body opened so far is closed (so no other request is
\* outstanding, and the page body is closed before the page's first image
\* request), and every photo requested so far, in list order, has its bytes
\* written in full and its file closed (so photo k+1 and the next page wait
\* for photo k and for the whole page).
C12_Sequential ==
  \A i \in DOMAIN trace :
    IsRequest(trace[i]) =>
      /\ Count(Before(i), "bodyOpen") = Count(Before(i), "bodyClose")
      /\ Count(Before(i), "error") = 0
      /\ SelectSeq(Before(i), IsWrite) = WritesFor(Count(Before(i), "imageReq"))
      /\ Count(Before(i), "fileClose") = Count(Before(i), "imageReq")
      /\ trace[i].ev = "pageReq" =>
           Count(Before(i), "imageReq") =
             Len(PhotosFrom(SubSeq(pages, 1, Count(Before(i), "pageReq")), 1))

C12_Witness ==
  /\ status = FatalStatus
  /\ Len(PageRequests) = 2
  /\ Len(Requests) = 5
  /\ Len(Writes) = 2
  /\ pages[1].Photos # <<>>

\* --------------------------------------------- reading a URL, as a server

\* The part of s before the first c, and the part after it (empty when
\* there is no c).
BeforeFirst(s, c) ==
  IF FirstIndex(s, c) = 0 THEN s ELSE SubSeq(s, 1, FirstIndex(s, c) - 1)
AfterFirst(s, c) ==
  IF FirstIndex(s, c) = 0 THEN <<>> ELSE SubSeq(s, FirstIndex(s, c) + 1, Len(s))

\* The character a %XY escape stands for; "invalid" for one no escaper of
\* this model writes.
Unhex(x, y) ==
  CASE <<x, y>> = <<"2", "0">> -> " "
    [] <<x, y>> = <<"2", "3">> -> "#"
    [] <<x, y>> = <<"2", "5">> -> "%"
    [] <<x, y>> = <<"2", "6">> -> "&"
    [] <<x, y>> = <<"2", "B">> -> "+"
    [] <<x, y>> = <<"2", "F">> -> "/"
    [] <<x, y>> = <<"3", "D">> -> "="
    [] <<x, y>> = <<"3", "F">> -> "?"
    [] OTHER -> "invalid"

\* url.QueryUnescape: "+" is a space, %XY the character it stands for.
RECURSIVE QueryUnescape(_)
QueryUnescape(s) ==
  IF s = <<>> THEN <<>>
  ELSE IF Head(s) = "+" THEN <<" ">> \o QueryUnescape(Tail(s))
  ELSE IF Head(s) = "%"
       THEN IF Len(s) >= 3
            THEN <<Unhex(s[2], s[3])>> \o QueryUnescape(SubSeq(s, 4, Len(s)))
            ELSE <<"invalid">>
  ELSE <<Head(s)>> \o QueryUnescape(Tail(s))

\* url.ParseQuery: the key=value pairs between "&", unescaped, in order.
RECURSIVE ParseQuery(_)
ParseQuery(s) ==
  IF s = <<>> THEN <<>>
  ELSE LET one == BeforeFirst(s, "&")
           kv == << QueryUnescape(BeforeFirst(one, "=")),
                    QueryUnescape(AfterFirst(one, "=")) >>
       IN  (IF one = <<>> THEN <<>> ELSE <<kv>>) \o ParseQuery(AfterFirst(s, "&"))

\* A URL as its reader sees it: the fragment after the first "#" is dropped,
\* the query is what follows the first "?".
EndpointOf(u) == BeforeFirst(BeforeFirst(u, "#"), "?")
ParamsOf(u) == ParseQuery(AfterFirst(BeforeFirst(u, "#"), "?"))

\* C13: for every query Q, compileFirstURL(Q) is a URI on the search
\* endpoint with exactly three parameters: page=1, per_page=80, and query,
\* whose decoded value is Q.
C13_QueryRoundTrip ==
  pc = "built" =>
    /\ EndpointOf(ret) = SearchEndpoint
    /\ Len(ParamsOf(ret)) = 3
    /\ {ParamsOf(ret)[i] : i \in 1..3} =
         { << <<"p", "a", "g", "e">>, <<"1">> >>,
           << <<"p", "e", "r", "_", "p", "a", "g", "e">>, <<"8", "0">> >>,
           << <<"q", "u", "e", "r", "y">>, arg >> }

C13_Witness ==
  /\ pc = "built"
  /\ arg = <<"&", "+", "%">>
  /\ ParamsOf(ret)[3][2] = arg

\* The photos listed by the pages received before position i of the trace.
ListedBefore(i) == PhotosFrom(SubSeq(pages, 1, Count(Before(i), "pageReq")), 1)

\* C14: every progress line and the summary line log the number of photos
\* written in full so far, which is the number of photos of all the pages
\* received so far; no logged value counts a photo not yet written.
C14_LoggedCountIsWritten ==
  \A i \in DOMAIN trace :
    trace[i].ev \in {"log", "done"} =>
      /\ Count(Before(i), "error") = 0
      /\ trace[i].data = <<Count(Before(i), "write")>>
      /\ trace[i].data = <<Len(ListedBefore(i))>>
      /\ SelectSeq(Before(i), IsWrite) = WritesFor(Len(ListedBefore(i)))

C14_Witness ==
  /\ status = DoneStatus
  /\ \E i \in DOMAIN trace : trace[i] = Ev("log", <<>>, <<2>>)
  /\ \E i \in DOMAIN trace : trace[i] = Ev("done", <<>>, <<3>>)

\* The names of the files the run created or truncated.
CreatedNames == {trace[i].url : i \in {j \in DOMAIN trace : trace[j].ev = "create"}}

\* The complete bodies of the photos requested so far that derive the name n.
CompleteBytesFor(n) ==
  {ImageBytes(Listed[i].page, Listed[i].pos) :
     i \in {j \in 1..Count(trace, "imageReq") : FileName(Listed[j].url) = n}}

\* C15 as stated: when the run has ended, normally or not, every file it
\* created holds the complete bytes of a processed photo.
C15_NoTruncatedFile ==
  pc = "exited" =>
    \A n \in CreatedNames : n \in DOMAIN files /\ files[n] \in CompleteBytesFor(n)

\* C15, amended: when the run has ended, every file it created holds the
\* complete bytes of a processed photo of that name, except, after a failed
\* copy, the file of the failing photo: it holds the bytes copied before the
\* failure, possibly none.
C15_OnlyFailedCopyTruncates ==
  pc = "exited" =>
    \A n \in CreatedNames :
      /\ n \in DOMAIN files
      /\ \/ files[n] \in CompleteBytesFor(n)
         \/ /\ Errors # <<>>
            /\ LastError = Ev("error", n, <<"copy">>)
            /\ n = FileName(PhotoURL)
            /\ files[n] = Writes[Len(Writes)].data
            /\ IsPrefix(files[n], ImageBytes(pageNo, idx))

C15_Witness ==
  /\ pc = "exited"
  /\ Errors # <<>>
  /\ LastError.data = <<"copy">>
  /\ FileName(PhotoURL) \notin DOMAIN written
  /\ Len(files[FileName(PhotoURL)]) = 1
  /\ written # NoFiles

\* C16: without a key nothing happens but the fatal error: no os.Mkdir, no
\* request, the destination as it was.  With a key, an existing destination
\* is no error: main goes on to the first page request.
C16_KeyThenDestination ==
  /\ key = "" =>
       /\ pc \in {"key", "exited"}
       /\ \A i \in DOMAIN trace : trace[i].ev \notin {"mkdir", "pageReq", "imageReq", "create", "write"}
       /\ \A i \in DOMAIN Errors : Errors[i].data = <<"nokey">>
       /\ files = IF dirExists THEN OldFiles ELSE NoFiles
       /\ pc = "exited" =>
            /\ status = FatalStatus
            /\ trace = <<Ev("error", <<>>, <<"nokey">>), Ev("exit", <<>>, <<FatalStatus>>)>>
  /\ \A i \in DOMAIN Errors : Errors[i].data = <<"mkdir">> => ~dirExists
  /\ (key # "" /\ trace # <<>> /\ trace[1] = Ev("mkdir", <<>>, <<"exists">>)) =>
       IF Len(trace) = 1
       THEN /\ pc = "send"
            /\ status = -1
            /\ nextPage = compileFirstURL(query)
            /\ files = OldFiles
            /\ ENABLED SendRequest
       ELSE trace[2].ev = "pageReq" /\ trace[2].url = compileFirstURL(query)

C16_Witness ==
  /\ key = ""
  /\ pc = "exited"
  /\ ~dirExists

C16_WitnessExisting ==
  /\ key # ""
  /\ trace # <<>>
  /\ trace[1] = Ev("mkdir", <<>>, <<"exists">>)
  /\ Len(PageRequests) = 1

====
